---- MODULE Spec2Model ----
(***************************************************************************)
(* Model of the Cortex-M3 test firmware src/test_fw/src/main.rs.           *)
(*                                                                         *)
(* The firmware is one thread of control (main) over two static u32 cells, *)
(* COUNTER and TEST_VALUE, plus two functions that main never calls:       *)
(* test_function (exported) and trigger_hardfault (private).  The only     *)
(* other actor is the debugger attached to the core, which halts the core  *)
(* between two instructions and may then read or write the cells, call     *)
(* test_function, or force the program counter into trigger_hardfault.     *)
(*                                                                         *)
(* A u32 is kept as two 16-bit halves [hi, lo] because TLC's integers are  *)
(* 32-bit signed: 0xDEADBEEF and 0xFFFFFFFF do not fit in one.  All u32    *)
(* arithmetic is done on the halves with an explicit carry, modulo 2^32.   *)
(***************************************************************************)
EXTENDS Naturals, Integers, FiniteSets, Sequences, TLC

VARIABLES
    pc,          \* where the core is: see PcMain, PcFault
    i,           \* index of the delay loop `for _ in 0..1000` (main.rs:33)
    COUNTER,     \* static mut COUNTER: u32 (main.rs:14)
    TEST_VALUE,  \* static mut TEST_VALUE: u32 (main.rs:17)
    started,     \* TRUE once main's startup write (main.rs:23) has executed
    tvWritten,   \* TRUE when the debugger wrote TEST_VALUE after that write
    last,        \* the debugger's last access: [kind, val]
    since,       \* COUNTER increments executed since `last`
    iters,       \* COUNTER increments executed since reset
    writes,      \* debugger memory writes so far
    calls        \* debugger calls of test_function so far

vars == <<pc, i, COUNTER, TEST_VALUE, started, tvWritten, last, since, iters,
          writes, calls>>

----------------------------------------------------------------------------
(* Bounds of the model *)

\* COUNTER increments explored from reset
MaxIters == 3
\* debugger memory writes explored
MaxWrites == 2
\* debugger calls of test_function explored
MaxCalls == 1

----------------------------------------------------------------------------
(* u32 values *)

\* 2^16: a u32 is hi * Half + lo
Half == 65536

U32(h, l) == [hi |-> h, lo |-> l]

\* static mut COUNTER: u32 = 0
InitCounter == U32(0, 0)
\* mutant: the static is initialised with the value the startup write stores
MutInitTestValue == U32(4660, 22136)
\* static mut TEST_VALUE: u32 = 0xDEADBEEF
InitTestValue == U32(57005, 48879)
\* mutant: the startup write stores the link-time sentinel again
MutStartupTestValue == U32(57005, 48879)
\* TEST_VALUE = 0x12345678
StartupTestValue == U32(4660, 22136)
\* the literal 1 of wrapping_add(1)
One == U32(0, 1)
\* u32::MAX, 0xFFFF_FFFF
MaxU32 == U32(65535, 65535)

\* mutant: u32::saturating_add, the sum clamped at u32::MAX
MutSaturatingAdd(a, b) ==
    LET s == a.lo + b.lo
        h == a.hi + b.hi + (s \div Half)
    IN  IF h >= Half THEN MaxU32 ELSE U32(h, s % Half)

\* u32::wrapping_add: the sum modulo 2^32, the carry out of bit 31 dropped
wrapping_add(a, b) ==
    LET s == a.lo + b.lo
    IN  U32((a.hi + b.hi + (s \div Half)) % Half, s % Half)

----------------------------------------------------------------------------
(* Control points *)

\* main: "main" is the entry, before the startup write; "loop" is the top of
\* the loop body, before the increment; "for" is the delay loop.
PcMain == {"main", "loop", "for"}
\* trigger_hardfault: its entry, and where the read of invalid_ptr ends
PcFault == {"trigger_hardfault", "HardFault", "panic"}

\* for _ in 0..1000
NopCount == 1000

\* mutant: the loop is left after one delay and main returns
MutLoopExit == "returned"
\* mutant: the loop body ends in a call of trigger_hardfault
MutLoopFault == "trigger_hardfault"
\* the loop has no break and no return: after the delay, the next iteration
LoopBackTarget == "loop"

NoAccess == [kind |-> "none", val |-> InitCounter]

Init ==
    /\ pc = "main"
    /\ i = 0
    /\ COUNTER = InitCounter
    /\ TEST_VALUE = InitTestValue
    /\ started = FALSE
    /\ tvWritten = FALSE
    /\ last = NoAccess
    /\ since = 0
    /\ iters = 0
    /\ writes = 0
    /\ calls = 0

----------------------------------------------------------------------------
(* main *)

\* unsafe { TEST_VALUE = 0x12345678; }
Startup ==
    /\ pc = "main"
    /\ TEST_VALUE' = StartupTestValue
    /\ started' = TRUE
    /\ tvWritten' = FALSE
    /\ pc' = "loop"
    /\ UNCHANGED <<i, COUNTER, last, since, iters, writes, calls>>

\* mutant: COUNTER = COUNTER + 1, whose overflow check panics at u32::MAX
MutIncrementChecked ==
    /\ pc = "loop"
    /\ iters < MaxIters
    /\ IF COUNTER = MaxU32
          THEN pc' = "panic" /\ UNCHANGED <<COUNTER, iters, since>>
          ELSE /\ COUNTER' = wrapping_add(COUNTER, One)
               /\ iters' = iters + 1
               /\ since' = since + 1
               /\ pc' = "for"
    /\ i' = 0
    /\ UNCHANGED <<TEST_VALUE, started, tvWritten, last, writes, calls>>

\* mutant: the startup write sits inside the loop and runs every iteration
MutIncrementRestoresTestValue ==
    /\ pc = "loop"
    /\ iters < MaxIters
    /\ TEST_VALUE' = StartupTestValue
    /\ COUNTER' = wrapping_add(COUNTER, One)
    /\ iters' = iters + 1
    /\ since' = since + 1
    /\ i' = 0
    /\ pc' = "for"
    /\ UNCHANGED <<started, tvWritten, last, writes, calls>>

\* unsafe { COUNTER = COUNTER.wrapping_add(1); } and the start of the for loop
Increment ==
    /\ pc = "loop"
    /\ iters < MaxIters
    /\ COUNTER' = wrapping_add(COUNTER, One)
    /\ iters' = iters + 1
    /\ since' = since + 1
    /\ i' = 0
    /\ pc' = "for"
    /\ UNCHANGED <<TEST_VALUE, started, tvWritten, last, writes, calls>>

\* mutant: a delay loop whose index is never advanced
MutNopNoAdvance ==
    /\ pc = "for"
    /\ i < NopCount
    /\ UNCHANGED vars

\* one turn of the delay loop: asm::nop()
Nop ==
    /\ pc = "for"
    /\ i < NopCount
    /\ i' = i + 1
    /\ UNCHANGED <<pc, COUNTER, TEST_VALUE, started, tvWritten, last, since,
                   iters, writes, calls>>

\* the range 0..1000 is exhausted: the end of the loop body, and `loop` again
LoopBack ==
    /\ pc = "for"
    /\ i = NopCount
    /\ pc' = LoopBackTarget
    /\ i' = 0
    /\ UNCHANGED <<COUNTER, TEST_VALUE, started, tvWritten, last, since,
                   iters, writes, calls>>

FirmwareStep == Startup \/ Increment \/ Nop \/ LoopBack

----------------------------------------------------------------------------
(* test_function *)

\* mutant: the hook reads the other static
MutTestFunctionReadsTestValue == TEST_VALUE
\* pub fn test_function() -> u32 { unsafe { COUNTER } }
test_function == COUNTER

----------------------------------------------------------------------------
(* trigger_hardfault *)

\* let invalid_ptr: *const u32 = 0xFFFF_FFFF as *const u32;
invalid_ptr == MaxU32

\* align_of::<u32>() is 4: the alignment read_volatile requires of its pointer
Aligned(p) == p.lo % 4 = 0

\* The memory the lm3s6965evb machine maps for code and data: 256 KiB of
\* flash at 0x0000_0000 and 64 KiB of SRAM at 0x2000_0000.
Mapped(p) == p.hi \in 0..3 \/ p.hi = 8192

\* What the load instruction does: a mapped word is read and the function
\* goes on; an unmapped address is a bus fault, escalated to HardFault.
Load(p) == IF Mapped(p) THEN "returned" ELSE "HardFault"

\* core::ptr::read_volatile(p).  Its safety contract requires p to be aligned
\* for u32.  With a misaligned p the call is undefined behaviour, and a build
\* produces one of two things: the load is issued as written, or (a build
\* with debug assertions) the precondition check panics before the load, and
\* the panic handler, panic_halt, spins forever.
read_volatile(p) == {Load(p)} \cup (IF Aligned(p) THEN {} ELSE {"panic"})

\* the body of trigger_hardfault, from its entry to where the read ends
TriggerHardfaultRead ==
    /\ pc = "trigger_hardfault"
    /\ pc' \in read_volatile(invalid_ptr)
    /\ UNCHANGED <<i, COUNTER, TEST_VALUE, started, tvWritten, last, since,
                   iters, writes, calls>>

----------------------------------------------------------------------------
(* The debugger, acting on the halted core *)

\* values the debugger writes into COUNTER: u32::MAX and 0x0000_FFFF
CounterWrites == {MaxU32, U32(0, 65535)}
\* values the debugger writes into TEST_VALUE: 0xCAFEBABE and 0xDEADBEEF
TestValueWrites == {U32(51966, 47806), InitTestValue}

\* the debugger calls the exported test_function and takes its result
TestFunctionCall ==
    /\ pc \in PcMain
    /\ calls < MaxCalls
    /\ last' = [kind |-> "call", val |-> test_function]
    /\ since' = 0
    /\ calls' = calls + 1
    /\ UNCHANGED <<pc, i, COUNTER, TEST_VALUE, started, tvWritten, iters,
                   writes>>

DebugWriteCounter ==
    /\ pc \in PcMain
    /\ writes < MaxWrites
    /\ \E v \in CounterWrites :
          /\ COUNTER' = v
          /\ last' = [kind |-> "wctr", val |-> v]
    /\ since' = 0
    /\ writes' = writes + 1
    /\ UNCHANGED <<pc, i, TEST_VALUE, started, tvWritten, iters, calls>>

DebugWriteTestValue ==
    /\ pc \in PcMain
    /\ writes < MaxWrites
    /\ \E v \in TestValueWrites :
          /\ TEST_VALUE' = v
          /\ last' = [kind |-> "wtv", val |-> v]
    /\ tvWritten' = TRUE
    /\ since' = 0
    /\ writes' = writes + 1
    /\ UNCHANGED <<pc, i, COUNTER, started, iters, calls>>

\* the debugger sets the program counter to trigger_hardfault's entry;
\* main's frame, and with it the delay index, is abandoned
ForceJump ==
    /\ pc \in PcMain
    /\ pc' = "trigger_hardfault"
    /\ i' = 0
    /\ UNCHANGED <<COUNTER, TEST_VALUE, started, tvWritten, last, since,
                   iters, writes, calls>>

----------------------------------------------------------------------------
(* Specifications *)

\* the firmware with the debugger attached
Next ==
    \/ Startup
    \/ Increment
    \/ Nop
    \/ LoopBack
    \/ TestFunctionCall
    \/ DebugWriteCounter
    \/ DebugWriteTestValue
    \/ ForceJump
    \/ TriggerHardfaultRead

Spec == Init /\ [][Next]_vars

\* the firmware's own control flow, with test_function called from outside:
\* no debugger write, no forced jump
NextFirmware ==
    \/ Startup
    \/ Increment
    \/ Nop
    \/ LoopBack
    \/ TestFunctionCall

FirmwareSpec == Init /\ [][NextFirmware]_vars

\* the same, the core never halted for good: a step of main that can be
\* taken is eventually taken
FairFirmwareSpec == FirmwareSpec /\ WF_vars(FirmwareStep)

TypeOK ==
    /\ pc \in PcMain \cup PcFault
    /\ i \in 0..NopCount
    /\ COUNTER \in [hi : 0..(Half - 1), lo : 0..(Half - 1)]
    /\ TEST_VALUE \in [hi : 0..(Half - 1), lo : 0..(Half - 1)]
    /\ started \in BOOLEAN
    /\ tvWritten \in BOOLEAN
    /\ last.kind \in {"none", "call", "wctr", "wtv"}
    /\ since \in 0..iters
    /\ iters \in 0..MaxIters
    /\ writes \in 0..MaxWrites
    /\ calls \in 0..MaxCalls

----------------------------------------------------------------------------
(* Properties *)

\* The values the properties speak of, written out on their own.
Hex12345678 == U32(4660, 22136)
HexDEADBEEF == U32(57005, 48879)
HexCAFEBABE == U32(51966, 47806)
HexFFFFFFFF == U32(65535, 65535)
Hex00000000 == U32(0, 0)
Hex00000001 == U32(0, 1)

\* The successor of v in the cycle 0, 1, ..., 0xFFFFFFFF, 0, by cases.
Next32(v) ==
    IF v.lo < 65535 THEN U32(v.hi, v.lo + 1)
    ELSE IF v.hi < 65535 THEN U32(v.hi + 1, 0)
    ELSE U32(0, 0)

\* v + n modulo 2^32, as n successors.
RECURSIVE PlusN(_, _)
PlusN(v, n) == IF n = 0 THEN v ELSE Next32(PlusN(v, n - 1))

Running == {"loop", "for"}

\* C1: once the startup write has executed, and as long as the debugger has
\* not written TEST_VALUE since, TEST_VALUE is 0x12345678, whatever the
\* number of loop iterations and test_function calls.
C1_TestValueAfterStartup ==
    (started /\ ~tvWritten) => TEST_VALUE = Hex12345678

C1_Witness ==
    /\ started /\ ~tvWritten
    /\ iters = MaxIters
    /\ last.kind = "call"
    /\ pc = "for" /\ i = NopCount
    /\ TEST_VALUE = Hex12345678

\* C2: before the startup write has executed (and with no debugger write),
\* TEST_VALUE is 0xDEADBEEF and COUNTER is 0: no increment has happened.
C2_BeforeStartup ==
    (~started /\ writes = 0) =>
        /\ TEST_VALUE = HexDEADBEEF
        /\ COUNTER = Hex00000000
        /\ iters = 0

C2_Witness ==
    /\ ~started /\ writes = 0
    /\ pc = "main"
    /\ last = [kind |-> "call", val |-> Hex00000000]
    /\ TEST_VALUE = HexDEADBEEF

\* C3: between an observation of COUNTER (a test_function call) and a later
\* instant with no debugger access in between, COUNTER is the observed value
\* plus the number of increments executed in between, modulo 2^32, and after
\* at least one increment it differs from the observed value.
C3_CounterAdvances ==
    last.kind = "call" =>
        /\ COUNTER = PlusN(last.val, since)
        /\ since >= 1 => COUNTER # last.val

\* an observation of 0xFFFFFFFF, then an iteration: the counter has wrapped
C3_Witness ==
    /\ last = [kind |-> "call", val |-> HexFFFFFFFF]
    /\ since = 1
    /\ COUNTER = Hex00000000
    /\ pc = "loop"

\* C4: an iteration replaces COUNTER c by (c + 1) mod 2^32, once: the step out
\* of the loop top sets the successor (0 after 0xFFFFFFFF) and goes on into
\* the delay, never into a panic or a fault, and the delay leaves COUNTER
\* alone.
C4_IncrementWraps ==
    [][ /\ (pc = "loop" /\ pc' # "loop" /\ pc' # "trigger_hardfault") =>
               (pc' = "for" /\ COUNTER' = Next32(COUNTER))
        /\ (pc = "for" /\ writes' = writes) => COUNTER' = COUNTER
      ]_vars

\* 0xFFFFFFFF written, then two iterations: 0, then 1
C4_Witness ==
    /\ last = [kind |-> "wctr", val |-> HexFFFFFFFF]
    /\ since = 2
    /\ COUNTER = Hex00000001
    /\ pc = "for"

\* C5: a call of test_function, at any point of main, returns the value
\* COUNTER holds and leaves COUNTER, TEST_VALUE and main's position unchanged.
C5_TestFunctionReadsCounter ==
    [][ calls' # calls =>
            /\ last' = [kind |-> "call", val |-> COUNTER]
            /\ COUNTER' = COUNTER
            /\ TEST_VALUE' = TEST_VALUE
            /\ pc' = pc /\ i' = i
      ]_vars

\* a call in the middle of the delay, after the debugger wrote COUNTER
C5_Witness ==
    /\ last.kind = "call" /\ since = 0
    /\ writes >= 1
    /\ last.val \in {HexFFFFFFFF, U32(1, 0)}
    /\ COUNTER = last.val
    /\ pc = "for" /\ i \in 1..(NopCount - 1)

\* C6: once execution is in trigger_hardfault, the read of 0xFFFFFFFF ends in
\* a reported hardware fault and nowhere else: control is never back in the
\* caller or in main, and never in any state other than the fault.
C6_FaultReported ==
    pc \in PcMain \cup {"trigger_hardfault", "HardFault"}

\* C7: main never returns: from its entry control goes to the loop, and from
\* the loop nowhere else; the entry is never re-entered.
C7_MainNeverReturns ==
    [][ /\ pc = "main" => pc' \in {"main", "loop"}
        /\ pc \in Running => pc' \in Running
        /\ started => started'
      ]_vars

C7_Witness ==
    /\ pc = "loop"
    /\ iters = MaxIters
    /\ started

\* C8: by the firmware's own control flow (startup, iterations, calls of
\* test_function) trigger_hardfault is never entered and no fault is reached.
C8_FaultPathUnreached ==
    pc \in PcMain

C8_Witness ==
    /\ pc = "for" /\ i = NopCount
    /\ iters = MaxIters
    /\ last.kind = "call"

C10_CounterKeepsIncrementing ==
    /\ [][ /\ (pc = "for" /\ pc' = "for") =>
                 (i' \in {i, i + 1} /\ COUNTER' = COUNTER /\ TEST_VALUE' = TEST_VALUE)
           /\ (pc = "for" /\ pc' # "for") => i = 1000
         ]_vars
    /\ \A n \in 0..(MaxIters - 1) :
          (pc \in Running /\ iters = n) ~> (iters = n + 1)

C10_Witness ==
    /\ pc = "for" /\ i = 1000
    /\ iters = MaxIters

====
